---- MODULE Spec2Model ----
(***************************************************************************)
(* Model of the GraphQL example server of src/index.js: the in-memory      *)
(* users and posts, the unit tables HeightValue / WeightValue, the         *)
(* conversion getValue with the resolvers that call it (User.height,       *)
(* User.weight, Query.usersHeight) and the mutations addPost and likePost. *)
(*                                                                         *)
(* Numbers: the factors 30.48 and 0.45 have two decimals, so every factor  *)
(* and every converted value is kept as an integer count of hundredths     *)
(* (FOOT = 3048, POUND = 45, the factor 1 = 100).  Base values are         *)
(* integers, as the stored heights and weights are.                        *)
(***************************************************************************)
EXTENDS Integers, Sequences, FiniteSets, TLC

VARIABLES users, posts, HeightValue, WeightValue, inflight, call, ret

vars == <<users, posts, HeightValue, WeightValue, inflight, call, ret>>

----------------------------------------------------------------------------
(* Bounds of the model *)

\* requests that may be in flight (received, not yet answered) at once
MaxInFlight == 2
\* posts the list may grow to (the program starts with three)
MaxPosts == 4
\* base values tried in the direct applications of getValue: -1 .. MaxValue
MaxValue == 3

----------------------------------------------------------------------------
(* Constants of the program *)

\* one unit of a factor or of a converted value, in hundredths
Hundredths == 100

\* the enumeration extended by a unit the table does not have
HeightUnit_WithInch == {"METRE", "CENTIMETER", "FOOT", "INCH"}

\* enum HeightUnit
HeightUnit == {"METRE", "CENTIMETER", "FOOT"}

\* enum WeightUnit
WeightUnit == {"KILOGRAM", "GRAM", "POUND"}

\* height(unit: HeightUnit = CENTIMETER), usersHeight(unit: HeightUnit = CENTIMETER)
HeightDefault == "CENTIMETER"

\* weight(unit: WeightUnit = KILOGRAM)
WeightDefault == "KILOGRAM"

\* the factors written relative to the metre
HeightValueLiteral_MetreBase == [METRE |-> 100, CENTIMETER |-> 1, FOOT |-> 30]

\* const HeightValue = { METRE: 100, CENTIMETER: 1, FOOT: 30.48 }
HeightValueLiteral == [METRE |-> 10000, CENTIMETER |-> 100, FOOT |-> 3048]

\* the factor of POUND inverted (pounds per kilogram)
WeightValueLiteral_PoundInverse == [KILOGRAM |-> 100, GRAM |-> 10000, POUND |-> 220]

\* const WeightValue = { KILOGRAM: 1, GRAM: 100, POUND: 0.45 }
WeightValueLiteral == [KILOGRAM |-> 100, GRAM |-> 10000, POUND |-> 45]

\* const users = [...]  (the fields the conversions and likeGivers read)
usersLiteral ==
  << [id |-> 1, height |-> 175, weight |-> 75],
     [id |-> 2, height |-> 168, weight |-> 60] >>

\* const posts = [...]
postsLiteral ==
  << [id |-> 1, authorId |-> 1, title |-> "1", likeGiverIds |-> <<2>>],
     [id |-> 2, authorId |-> 2, title |-> "2", likeGiverIds |-> <<1>>],
     [id |-> 3, authorId |-> 1, title |-> "3", likeGiverIds |-> <<>>] >>

\* the user on whose behalf addPost and likePost act (authorId: 1, includes(1), push(1))
Me == 1

----------------------------------------------------------------------------
(* Inputs *)

\* a unit symbol that is in neither enumeration
Bogus == "BOGUS"

\* the JavaScript value undefined, as a unit handed to getValue
Undefined == "undefined"

\* a field argument that the request leaves out
Absent == "absent"

\* the unit symbols a caller may hand to getValue
AnyUnit == HeightUnit \cup WeightUnit \cup {Bogus, Undefined}

\* the unit arguments a request may carry: a unit of each enumeration (for a
\* field one of its own and one that is no key of its table), and none
ArgUnits == {"FOOT", "POUND", Absent}

\* the kinds the resolvers pass to getValue
Kinds == {"height", "weight"}

\* the converting fields of the schema
Fields == {"height", "weight", "usersHeight"}

\* titles of the posts that addPost is asked to add
Titles == {"4"}

\* ids that likePost is asked for: the ids in use and one that is not
PostIds == 1 .. (MaxPosts + 1)

\* base values handed to getValue directly
Values == (-1 .. MaxValue) \cup {175, 168, 75, 60}

----------------------------------------------------------------------------
(* getValue *)

\* throw new Error('error'): no value is returned
Thrown == [threw |-> TRUE]

Returned(v) == [threw |-> FALSE, value |-> v]

\* Object.keys(unitValues)
Keys(unitValues) == DOMAIN unitValues

\* the two tables of the conditional exchanged
getValue_OtherTable(type, value, unit) ==
  LET unitValues == IF type = "weight" THEN HeightValue ELSE WeightValue
  IN  IF unit \notin Keys(unitValues)
        THEN Thrown
        ELSE Returned(value * unitValues[unit])

\* the membership test left out: a unit that is no key yields a number (NaN, here 0)
getValue_NoCheck(type, value, unit) ==
  LET unitValues == IF type = "weight" THEN WeightValue ELSE HeightValue
  IN  IF unit \notin Keys(unitValues)
        THEN Returned(0)
        ELSE Returned(value * unitValues[unit])

getValue(type, value, unit) ==
  LET unitValues == IF type = "weight" THEN WeightValue ELSE HeightValue
  IN  IF unit \notin Keys(unitValues)
        THEN Thrown
        ELSE Returned(value * unitValues[unit])

----------------------------------------------------------------------------
(* Resolvers *)

\* the engine's argument coercion: an absent argument takes the schema default
DefaultUnit(field) == IF field = "weight" THEN WeightDefault ELSE HeightDefault

Coerce(field, arg) == IF arg = Absent THEN DefaultUnit(field) ELSE arg

\* User.height: (parent, args) => getValue('height', parent.height, args.unit)
UserHeight(parent, unit) == getValue("height", users[parent].height, unit)

\* the kind of User.height passed by User.weight
UserWeight_HeightKind(parent, unit) == getValue("height", users[parent].weight, unit)

\* User.weight: (parent, args) => getValue('weight', parent.weight, args.unit)
UserWeight(parent, unit) == getValue("weight", users[parent].weight, unit)

\* Query.usersHeight: users.map(item => getValue('height', item.height, args.unit));
\* an exception of the callback leaves map, and the resolver, without a list
usersHeight(unit) ==
  LET each == [i \in 1 .. Len(users) |-> getValue("height", users[i].height, unit)]
  IN  IF \E i \in 1 .. Len(users) : each[i].threw
        THEN Thrown
        ELSE Returned([i \in 1 .. Len(users) |-> each[i].value])

\* the resolver of a converting field, on the parent and the coerced unit
Resolver(field, parent, unit) ==
  CASE field = "height" -> UserHeight(parent, unit)
    [] field = "weight" -> UserWeight(parent, unit)
    [] field = "usersHeight" -> usersHeight(unit)

\* the parents a field is resolved on: a user (by position) or, for Query, the root
Parents(field) == IF field = "usersHeight" THEN {0} ELSE 1 .. Len(users)

----------------------------------------------------------------------------
(* Array helpers of likePost *)

\* Array.prototype.includes
Includes(list, x) == \E i \in 1 .. Len(list) : list[i] = x

\* item.id === x for an element item of likeGiverIds: the elements are numbers,
\* a number has no property id, so item.id is undefined and === never holds
IdIs(item, x) == FALSE

\* likeGiverIds.findIndex(item => item.id === x), 0-based, -1 when none matches
FindIndexOfId(list, x) ==
  LET hits == {i \in 1 .. Len(list) : IdIs(list[i], x)}
  IN  IF hits = {} THEN -1
      ELSE (CHOOSE i \in hits : \A j \in hits : i <= j) - 1

\* a negative start taken as 0
Splice1_FromFront(list, start) ==
  LET len == Len(list)
      from == IF start < 0 THEN 0 ELSE IF start > len THEN len ELSE start
  IN  [i \in 1 .. (IF from < len THEN len - 1 ELSE len) |->
         IF i <= from THEN list[i] ELSE list[i + 1]]

\* list.splice(start, 1): the list without the element at the 0-based start;
\* a negative start counts from the end (max(len + start, 0))
Splice1(list, start) ==
  LET len == Len(list)
      from == IF start < 0
                THEN (IF len + start < 0 THEN 0 ELSE len + start)
                ELSE (IF start > len THEN len ELSE start)
  IN  [i \in 1 .. (IF from < len THEN len - 1 ELSE len) |->
         IF i <= from THEN list[i] ELSE list[i + 1]]

\* the conditional of likePost on the list of one post
ToggleLike(likeGiverIds) ==
  IF Includes(likeGiverIds, Me)
    THEN Splice1(likeGiverIds, FindIndexOfId(likeGiverIds, Me))
    ELSE Append(likeGiverIds, Me)

\* posts.find(item => item.id === id): the position of the first match, 0 when none
FindPost(id) ==
  LET hits == {i \in 1 .. Len(posts) : posts[i].id = id}
  IN  IF hits = {} THEN 0 ELSE CHOOSE i \in hits : \A j \in hits : i <= j

----------------------------------------------------------------------------
(* State *)

NoCall == [type |-> "none"]

NoRet == [op |-> "none"]

Pending(c) == "result" \notin DOMAIN c

Done(c) == "result" \in DOMAIN c

Init ==
  /\ users = usersLiteral
  /\ posts = postsLiteral
  /\ HeightValue = HeightValueLiteral
  /\ WeightValue = WeightValueLiteral
  /\ inflight = {}
  /\ call = NoCall
  /\ ret = NoRet

----------------------------------------------------------------------------
(* Operations *)

\* a request for one converting field arrives
Request(field, parent, arg) ==
  /\ Cardinality(inflight) < MaxInFlight
  /\ inflight' = inflight \cup {[field |-> field, parent |-> parent, arg |-> arg]}
  /\ UNCHANGED <<users, posts, HeightValue, WeightValue, call, ret>>

\* the converted value written back into the parent record
ResolveField_WriteBack(c) ==
  /\ c \in inflight
  /\ Pending(c)
  /\ LET r == Resolver(c.field, c.parent, Coerce(c.field, c.arg))
     IN  /\ inflight' = (inflight \ {c}) \cup
               {[field |-> c.field, parent |-> c.parent, arg |-> c.arg, result |-> r]}
         /\ users' = IF c.field = "height" /\ ~r.threw
                       THEN [users EXCEPT ![c.parent].height = r.value]
                       ELSE users
  /\ UNCHANGED <<posts, HeightValue, WeightValue, call, ret>>

\* a unit that is no key is entered in the table (factor 1) before the error
ResolveField_AddsKey(c) ==
  /\ c \in inflight
  /\ Pending(c)
  /\ LET unit == Coerce(c.field, c.arg)
         r == Resolver(c.field, c.parent, unit)
     IN  /\ inflight' = (inflight \ {c}) \cup
               {[field |-> c.field, parent |-> c.parent, arg |-> c.arg, result |-> r]}
         /\ HeightValue' = IF r.threw /\ c.field # "weight"
                             THEN (unit :> Hundredths) @@ HeightValue
                             ELSE HeightValue
  /\ UNCHANGED <<users, posts, WeightValue, call, ret>>

\* the engine runs the field's resolver: coercion of the argument, the read of
\* the parent's base value and getValue happen in one synchronous step
ResolveField(c) ==
  /\ c \in inflight
  /\ Pending(c)
  /\ inflight' = (inflight \ {c}) \cup
       {[field |-> c.field, parent |-> c.parent, arg |-> c.arg,
         result |-> Resolver(c.field, c.parent, Coerce(c.field, c.arg))]}
  /\ UNCHANGED <<users, posts, HeightValue, WeightValue, call, ret>>

\* the answer (value or field error) leaves the server
Respond(c) ==
  /\ c \in inflight
  /\ Done(c)
  /\ inflight' = inflight \ {c}
  /\ UNCHANGED <<users, posts, HeightValue, WeightValue, call, ret>>

\* the new post takes the length of the list as its id
addPost_IdIsLength(title) ==
  /\ Len(posts) < MaxPosts
  /\ posts' = Append(posts, [id |-> Len(posts), authorId |-> Me, title |-> title,
                             likeGiverIds |-> << >>])
  /\ UNCHANGED <<users, HeightValue, WeightValue, inflight, call, ret>>

\* Mutation.addPost
addPost(title) ==
  /\ Len(posts) < MaxPosts
  /\ posts' = Append(posts, [id |-> Len(posts) + 1, authorId |-> Me, title |-> title,
                             likeGiverIds |-> << >>])
  /\ UNCHANGED <<users, HeightValue, WeightValue, inflight, call, ret>>

\* Mutation.likePost; for an id that no post has it throws and changes nothing
likePost(id) ==
  /\ LET p == FindPost(id)
     IN  IF p = 0
           THEN posts' = posts
           ELSE posts' = [posts EXCEPT ![p].likeGiverIds = ToggleLike(@)]
  /\ UNCHANGED <<users, HeightValue, WeightValue, inflight, call, ret>>

Next ==
  \/ \E field \in Fields : \E parent \in Parents(field) : \E arg \in ArgUnits :
       Request(field, parent, arg)
  \/ \E c \in inflight : ResolveField(c)
  \/ \E c \in inflight : Respond(c)
  \/ \E title \in Titles : addPost(title)
  \/ \E id \in PostIds : likePost(id)

Spec == Init /\ [][Next]_vars

----------------------------------------------------------------------------
(* Direct applications of getValue and of usersHeight to drawn inputs *)

InitFn ==
  /\ users = usersLiteral
  /\ posts = postsLiteral
  /\ HeightValue = HeightValueLiteral
  /\ WeightValue = WeightValueLiteral
  /\ inflight = {}
  /\ call \in [type : Kinds, value : Values, unit : AnyUnit]
  /\ ret = NoRet

ApplyGetValue ==
  /\ ret = NoRet
  /\ ret' = [op |-> "getValue", result |-> getValue(call.type, call.value, call.unit)]
  /\ UNCHANGED <<users, posts, HeightValue, WeightValue, inflight, call>>

ApplyUsersHeight ==
  /\ ret = NoRet
  /\ ret' = [op |-> "usersHeight", result |-> usersHeight(call.unit)]
  /\ UNCHANGED <<users, posts, HeightValue, WeightValue, inflight, call>>

NextFn == ApplyGetValue \/ ApplyUsersHeight

SpecFn == InitFn /\ [][NextFn]_vars

----------------------------------------------------------------------------
(* What the claims are stated against: the tables and records as the source *)
(* text gives them                                                          *)

KindTable(kind) == IF kind = "weight" THEN WeightValueLiteral ELSE HeightValueLiteral

KindBaseUnit(kind) == IF kind = "weight" THEN "KILOGRAM" ELSE "CENTIMETER"

FieldEnum(field) == IF field = "weight" THEN WeightUnit ELSE HeightUnit

FieldKind(field) == IF field = "weight" THEN "weight" ELSE "height"

\* what a conversion yields when nothing else runs
AloneValue(kind, value, unit) ==
  IF unit \in DOMAIN KindTable(kind)
    THEN Returned(value * KindTable(kind)[unit])
    ELSE Thrown

Alone(c) ==
  LET unit == IF c.arg = Absent THEN KindBaseUnit(FieldKind(c.field)) ELSE c.arg
  IN  CASE c.field = "height" -> AloneValue("height", usersLiteral[c.parent].height, unit)
        [] c.field = "weight" -> AloneValue("weight", usersLiteral[c.parent].weight, unit)
        [] c.field = "usersHeight" ->
             IF unit \in DOMAIN HeightValueLiteral
               THEN Returned([i \in 1 .. Len(usersLiteral) |->
                                usersLiteral[i].height * HeightValueLiteral[unit]])
               ELSE Thrown

DoneCalls == {c \in inflight : Done(c)}

\* a step in which a conversion finishes (with a value or with the error)
ConversionStep == \E d \in inflight' \ inflight : Done(d)

\* the list with every occurrence of x taken out
Without(list, x) == SelectSeq(list, LAMBDA e : e # x)

----------------------------------------------------------------------------
(* Claims *)

\* C1: for every kind, base value and unit that is no key of the kind's table
\* (a symbol of neither enumeration, a unit of the other kind, undefined),
\* getValue throws and returns no value; usersHeight then returns no list,
\* not even a partial one.
C1_InvalidUnitThrows ==
  /\ (ret.op = "getValue" /\ call.unit \notin DOMAIN KindTable(call.type))
       => ret.result = Thrown
  /\ (ret.op = "usersHeight" /\ call.unit \notin DOMAIN KindTable("height"))
       => ret.result = Thrown

C1_Witness ==
  /\ ret.op = "getValue"
  /\ call.type = "height"
  /\ call.unit = "KILOGRAM"
  /\ ret.result = Thrown

\* C2: for every kind k, base value v and unit u that is a key of k's table,
\* getValue returns v times the factor of u in the table of k, never a factor
\* of the other kind's table.
C2_ValueTimesFactor ==
  (ret.op = "getValue" /\ call.unit \in DOMAIN KindTable(call.type))
    => ret.result = Returned(call.value * KindTable(call.type)[call.unit])

C2_Witness ==
  /\ ret.op = "getValue"
  /\ call = [type |-> "height", value |-> 175, unit |-> "FOOT"]
  /\ ret.result = Returned(175 * 3048)

\* C3: the factor of the base unit (CENTIMETER, KILOGRAM: the schema defaults)
\* is 1 in each table, so converting v to the base unit of its kind returns v.
C3_BaseUnitIdentity ==
  /\ HeightValue[HeightDefault] = Hundredths
  /\ WeightValue[WeightDefault] = Hundredths
  /\ HeightDefault = KindBaseUnit("height")
  /\ WeightDefault = KindBaseUnit("weight")
  /\ (ret.op = "getValue" /\ call.unit = KindBaseUnit(call.type))
       => ret.result = Returned(call.value * Hundredths)

C3_Witness ==
  /\ ret.op = "getValue"
  /\ call = [type |-> "weight", value |-> 60, unit |-> "KILOGRAM"]
  /\ ret.result = Returned(60 * Hundredths)

\* C4: in every reachable state the keys of each table are exactly the values
\* of its enumeration, and no step adds, removes or changes a table entry.
C4_TablesMatchEnumsAndStay ==
  /\ [](DOMAIN HeightValue = HeightUnit /\ DOMAIN WeightValue = WeightUnit)
  /\ [][HeightValue' = HeightValue /\ WeightValue' = WeightValue]_vars

C4_Witness ==
  /\ Len(posts) > Len(postsLiteral)
  /\ posts[1].likeGiverIds # postsLiteral[1].likeGiverIds
  /\ \E c \in DoneCalls : c.result.threw
  /\ \E c \in DoneCalls : ~c.result.threw
  /\ DOMAIN HeightValue = HeightUnit
  /\ DOMAIN WeightValue = WeightUnit

\* C5: when the unit argument of a converting field is a value of the field's
\* own enumeration, or is absent and takes the schema default, the resolver
\* never raises the unrecognized-unit error: not in a finished conversion, and
\* not for any value of the enumeration in any reachable state.
C5_EnumUnitNeverThrows ==
  /\ \A c \in DoneCalls :
       (c.arg = Absent \/ c.arg \in FieldEnum(c.field)) => ~c.result.threw
  /\ \A field \in Fields : \A parent \in Parents(field) :
       \A arg \in FieldEnum(field) \cup {Absent} :
         ~Resolver(field, parent, Coerce(field, arg)).threw

C5_Witness ==
  /\ \E c \in DoneCalls : c.field = "weight" /\ c.arg = Absent /\ ~c.result.threw
  /\ \E c \in DoneCalls : c.field = "usersHeight" /\ c.arg = "FOOT" /\ ~c.result.threw

\* C6: a conversion, whether it returns a value or fails, leaves the user
\* records, the posts and both unit tables unchanged.
C6_ConversionFrame ==
  [][ConversionStep => UNCHANGED <<users, posts, HeightValue, WeightValue>>]_vars

C6_Witness ==
  /\ \E c \in DoneCalls : c.field = "height" /\ ~c.result.threw
  /\ \E c \in DoneCalls : c.field = "weight" /\ c.result.threw
  /\ users = usersLiteral

\* C7: the weight table has base unit KILOGRAM and factor POUND = 0.45, so
\* 75 of kind weight converted to POUND is 33.75 (3375 hundredths).
C7_SeventyFiveKgInPounds ==
  /\ WeightValue["KILOGRAM"] = Hundredths
  /\ WeightValue["POUND"] = 45
  /\ (ret.op = "getValue" /\ call = [type |-> "weight", value |-> 75, unit |-> "POUND"])
       => ret.result = Returned(3375)

C7_Witness ==
  /\ ret.op = "getValue"
  /\ call = [type |-> "weight", value |-> 75, unit |-> "POUND"]
  /\ ~ret.result.threw
  /\ ret.result.value = 3375

\* C8: in every interleaving of in-flight conversions with each other and with
\* addPost and likePost, each conversion returns what it returns when run alone
\* on the same kind, base value and unit.
C8_SameResultAsAlone == \A c \in DoneCalls : c.result = Alone(c)

C8_Witness ==
  /\ Cardinality(DoneCalls) = 2
  /\ \E c \in DoneCalls : c.result.threw
  /\ \E c \in DoneCalls : ~c.result.threw
  /\ Len(posts) > Len(postsLiteral)
  /\ posts[3].likeGiverIds = <<Me>>

\* C9: likePost(id) on an existing post toggles exactly the membership of user
\* 1 in that post's likeGiverIds (appended if absent, the element removed if
\* present), leaves every other id of the list and every other post unchanged,
\* and a second likePost on the same post restores the list.
C9_LikeTogglesMe ==
  [][(posts' # posts /\ Len(posts') = Len(posts)) =>
       \E p \in 1 .. Len(posts) :
         /\ likePost(posts[p].id)
         /\ posts'[p] # posts[p]
         /\ posts'[p] = [posts[p] EXCEPT !.likeGiverIds =
                           IF Includes(posts[p].likeGiverIds, Me)
                             THEN Without(posts[p].likeGiverIds, Me)
                             ELSE Append(posts[p].likeGiverIds, Me)]
         /\ \A q \in 1 .. Len(posts) : q # p => posts'[q] = posts[q]
         /\ ToggleLike(posts'[p].likeGiverIds) = posts[p].likeGiverIds]_vars

C9_Witness ==
  /\ posts[1].likeGiverIds = <<2, Me>>
  /\ posts[2].likeGiverIds = << >>

\* C10: the ids of the posts are pairwise distinct, the post at position i
\* (counted from 0) having id i+1, so addPost's id is new and likePost(id)
\* identifies at most one post.
C10_PostIdsDistinct ==
  /\ \A i \in 1 .. Len(posts) : posts[i].id = i
  /\ \A i, j \in 1 .. Len(posts) : posts[i].id = posts[j].id => i = j
  /\ \A id \in PostIds : Cardinality({i \in 1 .. Len(posts) : posts[i].id = id}) <= 1

C10_Witness ==
  /\ Len(posts) > Len(postsLiteral)
  /\ posts[Len(posts)].id = Len(posts)
  /\ posts[Len(posts)].likeGiverIds = <<Me>>

====
